---- MODULE Spec2Model ----
(***************************************************************************)
(* chuni-c2c-dumper: the capture loop of main.rs and the packet decoder    *)
(* of proto.rs (tag, block decryption, sink write, Header, ArchiveHeader,  *)
(* command dispatch, Recruit record).                                      *)
(*                                                                         *)
(* Bytes are 0..255 and buffers are sequences of bytes.  TLC integers are  *)
(* 32-bit signed, so the inputs keep the top byte of every u32 that is     *)
(* decoded below 128 (values < 2^31).                                      *)
(***************************************************************************)
EXTENDS Integers, Sequences, FiniteSets, TLC

\* ------------------------------------------------------------ bounds
\* Frames delivered by the capture source in one run.
MaxFrames == 2
\* Calls of next_packet that report end-of-file which the model follows.
MaxPolls == 2
\* Longest player name / team name of the generated Recruit records.
MaxNameLen == 1
MaxTeamLen == 1

\* ------------------------------------------------- program constants
\* udp.destination_port() != 50200
PORT == 50200
\* &pkt[0..4], pkt[4..]
TAG_LEN == 4
\* the block size of Aes128Dec (InOutBuf::into_chunks)
BLOCK == 16
\* b"CHUNICHUNICHUNIC"
KEY == <<67, 72, 85, 78, 73, 67, 72, 85, 78, 73, 67, 72, 85, 78, 73, 67>>
\* Command::Recruit = 11, Command::RecruitEnd = 12
CMD_RECRUIT == 11
CMD_RECRUIT_END == 12

\* ----------------------------------------------------- byte decoding
\* read_u8
U8(b) == b[1]
\* read_u16::<LE>
U16LE(b) == b[1] + 256 * b[2]
\* read_u32::<LE>
U32LE(b) == b[1] + 256 * b[2] + 65536 * b[3] + 16777216 * b[4]
\* read_u32::<NetworkEndian> then Ipv4Addr::from_bits: the four octets in
\* wire order
Ipv4Octets(b) == <<b[1], b[2], b[3], b[4]>>
\* read_i32::<LE>: two's complement
I32LE(b) ==
    b[1] + 256 * b[2] + 65536 * b[3]
        + 16777216 * (IF b[4] >= 128 THEN b[4] - 256 ELSE b[4])

Cont(x) == x >= 128 /\ x <= 191

\* String::from_utf8: the well-formed UTF-8 byte sequences
RECURSIVE ValidUtf8From(_, _)
ValidUtf8From(s, i) ==
    IF i > Len(s) THEN TRUE
    ELSE LET a == s[i]
             n == Len(s) - i
         IN  IF a <= 127 THEN ValidUtf8From(s, i + 1)
             ELSE IF a >= 194 /\ a <= 223
                  THEN n >= 1 /\ Cont(s[i + 1]) /\ ValidUtf8From(s, i + 2)
             ELSE IF a >= 224 /\ a <= 239
                  THEN /\ n >= 2
                       /\ Cont(s[i + 1])
                       /\ Cont(s[i + 2])
                       /\ (a = 224 => s[i + 1] >= 160)
                       /\ (a = 237 => s[i + 1] <= 159)
                       /\ ValidUtf8From(s, i + 3)
             ELSE IF a >= 240 /\ a <= 244
                  THEN /\ n >= 3
                       /\ Cont(s[i + 1])
                       /\ Cont(s[i + 2])
                       /\ Cont(s[i + 3])
                       /\ (a = 240 => s[i + 1] >= 144)
                       /\ (a = 244 => s[i + 1] <= 143)
                       /\ ValidUtf8From(s, i + 4)
             ELSE FALSE

ValidUtf8(s) == ValidUtf8From(s, 1)

\* ------------------------------------------------------ the decryptor
\* Aes128Dec under KEY, one block.  AES itself is the cipher crate's; the
\* model keeps what dump relies on: a key-dependent bijection on whole
\* 16-byte blocks that is not the identity.
DecryptBlockByte(i, c) == (c + 256 - KEY[((i - 1) % BLOCK) + 1]) % 256

\* Fault injection for C5: decrypt_block on the first block for decrypt_blocks on all.
DecryptBlocks_firstOnly(buf) ==
    LET whole == IF Len(buf) >= BLOCK THEN BLOCK ELSE 0
        dec == [i \in 1..Len(buf) |->
                   IF i <= whole THEN DecryptBlockByte(i, buf[i]) ELSE buf[i]]
    IN  SubSeq(dec, 1, Len(buf))

\* InOutBuf::from(&mut buf[..]).into_chunks() then decrypt_blocks_inout:
\* the whole blocks are decrypted in place, the tail (fewer than BLOCK
\* bytes) is returned separately and dropped by dump, so it stays as it is.
DecryptBlocks(buf) ==
    LET whole == (Len(buf) \div BLOCK) * BLOCK
        dec == [i \in 1..Len(buf) |->
                   IF i <= whole THEN DecryptBlockByte(i, buf[i]) ELSE buf[i]]
    IN  SubSeq(dec, 1, Len(buf))

\* -------------------------------------------------- the byte cursor
\* One read of a layout: its name, its kind and (fixed kinds) its width.
\*   "pad"  reader.read_exact(&mut [0u8; w])?      bytes skipped
\*   "drop" reader.read_uNN::<LE>()?;              value read and discarded
\*   "u8", "u16", "u32", "ipv4", "i32"             value kept
\*   "str"  String::parse(reader)?                 u32 length, then the bytes
F(name, kind, width) == [name |-> name, kind |-> kind, width |-> width]

Decode(kind, b) ==
    CASE kind = "u8" -> U8(b)
      [] kind = "u16" -> U16LE(b)
      [] kind = "u32" -> U32LE(b)
      [] kind = "ipv4" -> Ipv4Octets(b)
      [] kind = "i32" -> I32LE(b)
      [] OTHER -> 0

\* read_exact / read_uNN on Cursor<Vec<u8>>: UnexpectedEof unless width
\* bytes remain.
ReadFixed(buf, pos, kind, width) ==
    IF Len(buf) - pos < width
    THEN [ok |-> FALSE, pos |-> Len(buf), val |-> 0, err |-> "UnexpectedEof"]
    ELSE [ok |-> TRUE, pos |-> pos + width,
          val |-> Decode(kind, SubSeq(buf, pos + 1, pos + width)),
          err |-> "none"]

\* impl Parse for String
ReadString(buf, pos) ==
    IF Len(buf) - pos < 4
    THEN [ok |-> FALSE, pos |-> Len(buf), val |-> <<>>, err |-> "UnexpectedEof"]
    ELSE LET len == U32LE(SubSeq(buf, pos + 1, pos + 4))
             from == pos + 4
         IN  IF Len(buf) - from < len
             THEN [ok |-> FALSE, pos |-> Len(buf), val |-> <<>>,
                   err |-> "UnexpectedEof"]
             ELSE LET bytes == SubSeq(buf, from + 1, from + len)
                  IN  IF ValidUtf8(bytes)
                      THEN [ok |-> TRUE, pos |-> from + len, val |-> bytes,
                            err |-> "none"]
                      ELSE [ok |-> FALSE, pos |-> from + len, val |-> <<>>,
                            err |-> "InvalidData"]

ReadField(buf, pos, f) ==
    IF f.kind = "str" THEN ReadString(buf, pos)
    ELSE ReadFixed(buf, pos, f.kind, f.width)

\* A parse that was not attempted.
NoParse ==
    [tried |-> FALSE, ok |-> FALSE, start |-> 0, pos |-> 0, reads |-> <<>>,
     err |-> "none"]

\* The reads of a layout in order, each with `?`: the first failure ends
\* the parse.  reads records every read done, with the offset it began at.
RECURSIVE ParseFrom(_, _, _, _, _, _)
ParseFrom(buf, start, pos, layout, i, acc) ==
    IF i > Len(layout)
    THEN [tried |-> TRUE, ok |-> TRUE, start |-> start, pos |-> pos,
          reads |-> acc, err |-> "none"]
    ELSE LET r == ReadField(buf, pos, layout[i])
         IN  IF ~r.ok
             THEN [tried |-> TRUE, ok |-> FALSE, start |-> start,
                   pos |-> r.pos, reads |-> acc, err |-> r.err]
             ELSE ParseFrom(buf, start, r.pos, layout, i + 1,
                            Append(acc, [name |-> layout[i].name, at |-> pos,
                                         val |-> r.val]))

Parse(buf, pos, layout) == ParseFrom(buf, pos, pos, layout, 1, <<>>)

HasRead(reads, name) == \E i \in 1..Len(reads) : reads[i].name = name
ReadOf(reads, name) == reads[CHOOSE i \in 1..Len(reads) : reads[i].name = name]
Val(reads, name) == ReadOf(reads, name).val

\* ------------------------------------------------------- the records
\* impl Parse for Version
Version(ver) ==
    [major |-> (ver \div 1000000) % 65536,
     minor |-> ((ver \div 1000) % 1000) % 65536,
     patch |-> (ver % 1000) % 65536]

\* enum Command, FromPrimitive with a catch-all
CommandFrom(x) ==
    IF x = CMD_RECRUIT THEN [tag |-> "Recruit", raw |-> x]
    ELSE IF x = CMD_RECRUIT_END THEN [tag |-> "RecruitEnd", raw |-> x]
    ELSE [tag |-> "Unknown", raw |-> x]

\* enum Group
GroupFrom(x) ==
    IF x \in 1..4 THEN [tag |-> <<"A", "B", "C", "D">>[x], raw |-> x]
    ELSE [tag |-> "Unknown", raw |-> x]

\* impl Parse for Header
HeaderLayout ==
    << F("rom_version", "u32", 4),
       F("data_version", "u32", 4),
       F("command", "u32", 4) >>

\* impl Parse for ArchiveHeader
ArchiveLayout ==
    << F("magic", "str", 0),
       F("version", "u16", 2),
       F("size_int", "u8", 1),
       F("size_long", "u8", 1),
       F("size_float", "u8", 1),
       F("size_double", "u8", 1),
       F("endian", "u32", 4) >>

\* Fault injection for C9: the always-1 value read with read_u32.
OneField_u32 == F("one", "drop", 4)

\* reader.read_u64::<LE>()?; // always 1
OneField == F("one", "drop", 8)

\* impl Parse for Recruit
RecruitLayout ==
    << F("pad15", "pad", 15),
       F("flag", "u8", 1),
       F("unknown0", "u32", 4),
       F("host", "ipv4", 4),
       F("aime_id", "u32", 4),
       F("zero", "drop", 4),
       F("name", "str", 0),
       F("chara", "u32", 4),
       F("chara_level", "u32", 4),
       F("skill", "u32", 4),
       F("skill_level", "u32", 4),
       F("trophy", "u32", 4),
       F("trophy2", "u32", 4),
       F("trophy3", "u32", 4),
       F("rating", "u32", 4),
       F("music_id", "u32", 4),
       F("difficulty", "u32", 4),
       OneField,
       F("team", "str", 0),
       F("pad30", "pad", 30),
       F("avatar_wear", "u32", 4),
       F("avatar_head", "u32", 4),
       F("avatar_face", "u32", 4),
       F("avatar_skin", "u32", 4),
       F("avatar_item", "u32", 4),
       F("avatar_front", "u32", 4),
       F("avatar_back", "u32", 4),
       F("zeros16", "pad", 16),
       F("music_id2", "u32", 4),
       F("group", "u32", 4),
       F("event_mode_flag", "drop", 4),
       F("unknown1", "drop", 4),
       F("minus1", "drop", 4),
       F("pad5", "pad", 5),
       F("time", "i32", 4),
       F("players", "u32", 4),
       F("event_mode", "u8", 1),
       F("friend_only", "u8", 1) >>

\* -------------------------------------------------------- proto::dump
\* What one call of dump did.  writes: the calls of out.write_all, each
\* with the buffer handed over and whether the sink took it.  info: the
\* info! events of the command dispatch.  pos: the cursor at the end.
NoDump ==
    [invoked |-> FALSE, outcome |-> "none", stage |-> "none", buf |-> <<>>,
     writes |-> <<>>, header |-> NoParse, archive |-> NoParse,
     recruit |-> NoParse, info |-> <<>>, pos |-> 0]

\* pkt[4..].to_vec()
Ciphertext(pkt) == SubSeq(pkt, TAG_LEN + 1, Len(pkt))

\* out.write_all(&buf): an empty buffer asks nothing of the sink and is Ok
WriteAll(buf, sinkOk) == << [buf |-> buf, ok |-> (sinkOk \/ buf = <<>>)] >>

\* Fault injection for C8: RecruitEnd falls through to the catch-all arm.
IsRecruitCommand_only11(cmd) == cmd.tag = "Recruit"

\* Command::Recruit | Command::RecruitEnd
IsRecruitCommand(cmd) == cmd.tag \in {"Recruit", "RecruitEnd"}

\* struct Header of a parsed header
HeaderOf(h) ==
    [rom_version |-> Version(Val(h.reads, "rom_version")),
     data_version |-> Version(Val(h.reads, "data_version")),
     command |-> CommandFrom(Val(h.reads, "command"))]

\* The match on header.command, after both headers parsed.
Dispatch(d, buf, h, a) ==
    LET cmd == HeaderOf(h).command
    IN  IF IsRecruitCommand(cmd)
        THEN LET r == Parse(buf, a.pos, RecruitLayout)
             IN  IF ~r.ok
                 THEN [d EXCEPT !.recruit = r, !.outcome = "err",
                                !.stage = "recruit", !.pos = r.pos]
                 ELSE [d EXCEPT !.recruit = r, !.outcome = "ok",
                                !.stage = "done", !.pos = r.pos,
                                !.info = << [event |-> "Recruit",
                                             value |-> cmd.raw] >>]
        ELSE [d EXCEPT !.outcome = "ok", !.stage = "done", !.pos = a.pos,
                       !.info = << [event |-> "Unknown command",
                                    value |-> cmd.raw] >>]

\* pub fn dump(pkt, out).  &pkt[0..4] panics on a payload shorter than the
\* tag; write_all(..)? and Header::parse(..)? return the error;
\* ArchiveHeader::parse(..).unwrap() panics on it.
dump(pkt, sinkOk) ==
    IF Len(pkt) < TAG_LEN
    THEN [NoDump EXCEPT !.invoked = TRUE, !.outcome = "panic",
                        !.stage = "magic"]
    ELSE LET buf == DecryptBlocks(Ciphertext(pkt))
             w == WriteAll(buf, sinkOk)
             d0 == [NoDump EXCEPT !.invoked = TRUE, !.buf = buf, !.writes = w]
         IN  IF ~w[1].ok
             THEN [d0 EXCEPT !.outcome = "err", !.stage = "write"]
             ELSE LET h == Parse(buf, 0, HeaderLayout)
                      d1 == [d0 EXCEPT !.header = h, !.pos = h.pos]
                  IN  IF ~h.ok
                      THEN [d1 EXCEPT !.outcome = "err", !.stage = "header"]
                      ELSE LET a == Parse(buf, h.pos, ArchiveLayout)
                               d2 == [d1 EXCEPT !.archive = a, !.pos = a.pos]
                           IN  IF ~a.ok
                               THEN [d2 EXCEPT !.outcome = "panic",
                                               !.stage = "archive"]
                               ELSE Dispatch(d2, buf, h, a)

\* ---------------------------------------------------------- main loop
\* A captured frame as the slicer sees it: whether its link/network
\* framing fails to slice under the capture's link type, and if it slices
\* its network layer, its transport layer, the destination port and the
\* transport payload.
Frame(malformed, net, transport, dport, payload) ==
    [malformed |-> malformed, net |-> net, transport |-> transport,
     dport |-> dport, payload |-> payload]

\* if is_ethernet { SlicedPacket::from_ethernet(pkt.data) } else
\* { SlicedPacket::from_ip(pkt.data) }: Err on a frame whose framing does
\* not slice under the capture's link type, else the layers.
Slice(f) ==
    IF f.malformed THEN [ok |-> FALSE] ELSE [ok |-> TRUE]

\* Fault injection for C7: the destination port is not compared.
Filter_anyPort(f) ==
    IF f.net # "ipv4" THEN "skip"
    ELSE IF f.transport = "udp" THEN "dump"
    ELSE "skip"

\* let Some(NetSlice::Ipv4(..)) = pkt.net else continue;
\* if let Some(TransportSlice::Udp(udp)) { if port != 50200 { continue } .. }
Filter(f) ==
    IF f.net # "ipv4" THEN "skip"
    ELSE IF f.transport = "udp"
         THEN IF f.dport # PORT THEN "skip" ELSE "dump"
    ELSE "skip"

\* What the last iteration of the loop did.
NoStep ==
    [kind |-> "none", sliced |-> "none", filter |-> "none", d |-> NoDump,
     warned |-> FALSE]

\* The Ok(pkt) arm for frame f: the process's state after it and the step.
\* from_ethernet(..)? / from_ip(..)? return the error from main.
HandleFrame(f, sinkOk) ==
    IF ~Slice(f).ok
    THEN [status |-> "exited",
          step |-> [NoStep EXCEPT !.kind = "frame", !.sliced = "err"]]
    ELSE IF Filter(f) = "skip"
    THEN [status |-> "running",
          step |-> [NoStep EXCEPT !.kind = "frame", !.sliced = "ok",
                                  !.filter = "skip"]]
    ELSE LET d == dump(f.payload, sinkOk)
         IN  [status |-> IF d.outcome = "panic" THEN "panicked" ELSE "running",
              step |-> [NoStep EXCEPT !.kind = "frame", !.sliced = "ok",
                                      !.filter = "dump", !.d = d,
                                      !.warned = (d.outcome = "err")]]

\* ------------------------------------------------- the captured input
\* The inverse of the block decryptor, to build ciphertexts of known
\* plaintexts (whole blocks only).
EncryptBlocks(plain) ==
    LET enc == [i \in 1..Len(plain) |->
                   (plain[i] + KEY[((i - 1) % BLOCK) + 1]) % 256]
    IN  SubSeq(enc, 1, Len(plain))

LE32(v) ==
    <<v % 256, (v \div 256) % 256, (v \div 65536) % 256, (v \div 16777216) % 256>>

Zeros(n) == SubSeq([i \in 1..n |-> 0], 1, n)

\* Zero-filled up to the next multiple of BLOCK.
Padded(plain) == plain \o Zeros((BLOCK - (Len(plain) % BLOCK)) % BLOCK)

WireString(bytes) == LE32(Len(bytes)) \o bytes

\* "Alice", "Team" repeated to n bytes
NameBytes(n) ==
    SubSeq([i \in 1..n |-> <<65, 108, 105, 99, 101>>[((i - 1) % 5) + 1]], 1, n)
TeamBytes(n) ==
    SubSeq([i \in 1..n |-> <<84, 101, 97, 109>>[((i - 1) % 4) + 1]], 1, n)

\* rom version 2.30.01, data version 2.30.105
WireHeader(cmd) == LE32(2030001) \o LE32(2030105) \o LE32(cmd)

WireArchive(magic) ==
    WireString(magic) \o <<1, 0>> \o <<4, 8, 4, 8>> \o LE32(1)

\* n consecutive u32 values from `from`
RECURSIVE U32Run(_, _)
U32Run(from, n) ==
    IF n = 0 THEN <<>> ELSE LE32(from) \o U32Run(from + 1, n - 1)

\* A Recruit body as the wire carries it.
WireRecruit(name, team) ==
    Zeros(15) \o <<1>> \o LE32(7) \o <<192, 168, 139, 5>> \o LE32(42)
        \o LE32(0) \o WireString(name) \o U32Run(101, 10)
        \o LE32(1) \o LE32(0) \o WireString(team) \o Zeros(30)
        \o U32Run(201, 7) \o Zeros(16) \o LE32(301) \o LE32(2) \o LE32(1)
        \o LE32(0) \o <<255, 255, 255, 255>> \o Zeros(5) \o LE32(1700000000)
        \o LE32(3) \o <<1, 0>>

Tag == <<222, 173, 190, 239>>
Magic == <<65, 82>>

Sealed(plain) == Tag \o EncryptBlocks(Padded(plain))

UnknownCommands == {13, 999, 2147483647}

\* UDP payloads sent to the port.
Payloads ==
    \* shorter than the tag, and the tag alone
    { <<>>, <<222, 173, 190>>, Tag }
    \* 8 bytes after the tag: no whole block, a truncated Header
    \cup { Tag \o <<1, 2, 3, 4, 5, 6, 7, 8>> }
    \* one all-zero block: a Header, then a truncated ArchiveHeader
    \cup { Sealed(Zeros(16)) }
    \* an ArchiveHeader whose magic is not text
    \cup { Sealed(WireHeader(999) \o WireArchive(<<255, 254>>)) }
    \* a complete envelope followed by 5 bytes: 37 bytes after the tag
    \cup { Sealed(WireHeader(999) \o WireArchive(Magic)) \o <<9, 8, 7, 6, 5>> }
    \* a complete envelope, one whole block and 4 bytes of the next one
    \cup { SubSeq(Sealed(WireHeader(999) \o WireArchive(Magic)), 1, TAG_LEN + 20) }
    \* commands outside the known set
    \cup { Sealed(WireHeader(c) \o WireArchive(Magic)) : c \in UnknownCommands }
    \* Recruit and RecruitEnd with their record
    \cup { Sealed(WireHeader(CMD_RECRUIT) \o WireArchive(Magic)
                      \o WireRecruit(NameBytes(n), TeamBytes(m))) :
             n \in 0..MaxNameLen, m \in 0..MaxTeamLen }
    \cup { Sealed(WireHeader(CMD_RECRUIT_END) \o WireArchive(Magic)
                      \o WireRecruit(NameBytes(MaxNameLen), TeamBytes(MaxTeamLen))) }
    \* Recruit with no record, a record cut short, a name that is not text
    \cup { Sealed(WireHeader(CMD_RECRUIT) \o WireArchive(Magic)) }
    \cup { Sealed(WireHeader(CMD_RECRUIT_END) \o WireArchive(Magic)
                      \o SubSeq(WireRecruit(NameBytes(1), TeamBytes(1)), 1, 100)) }
    \cup { Sealed(WireHeader(CMD_RECRUIT) \o WireArchive(Magic)
                      \o WireRecruit(<<255>>, TeamBytes(1))) }

OtherPorts == {PORT + 1}

Frames ==
    { Frame(FALSE, "ipv4", "udp", PORT, p) : p \in Payloads }
    \cup { Frame(FALSE, "ipv4", "udp", q, Sealed(Zeros(16))) : q \in OtherPorts }
    \cup { Frame(FALSE, "ipv4", "tcp", PORT, <<>>),
           Frame(FALSE, "ipv4", "none", 0, <<>>),
           Frame(FALSE, "ipv6", "udp", PORT, Sealed(Zeros(16))),
           Frame(FALSE, "none", "none", 0, <<>>),
           Frame(TRUE, "none", "none", 0, <<>>) }

\* --------------------------------------------------------------- state
VARIABLES
    status,       \* "running", "exited" (main returned Err), "panicked"
    eofSeen,      \* a recorded capture has reported its end
    polls,        \* calls of next_packet that reported the end
    trace,        \* the frames next_packet has delivered, in order
    out,          \* the calls of write_all on the sink: [idx, buf]
    last          \* what the last iteration of the loop did

vars == <<status, eofSeen, polls, trace, out, last>>

Init ==
    /\ status = "running"
    /\ eofSeen = FALSE
    /\ polls = 0
    /\ trace = <<>>
    /\ out = <<>>
    /\ last = NoStep

\* cap.next_packet() is Ok(pkt): the whole Ok arm for that frame.
NextPacketOk ==
    /\ status = "running"
    /\ ~eofSeen
    /\ Len(trace) < MaxFrames
    /\ \E f \in Frames, sinkOk \in BOOLEAN :
          LET r == HandleFrame(f, sinkOk)
              k == Len(trace) + 1
              w == r.step.d.writes
          IN  /\ status' = r.status
              /\ trace' = Append(trace, f)
              /\ last' = r.step
              /\ out' = out \o [i \in 1..Len(w) |->
                                  [idx |-> k, buf |-> w[i].buf]]
    /\ UNCHANGED <<eofSeen, polls>>

\* cap.next_packet() is Err(e), a read failure or a timeout: warn and loop.
NextPacketErr ==
    /\ status = "running"
    /\ ~eofSeen
    /\ last' = [NoStep EXCEPT !.kind = "readerr", !.warned = TRUE]
    /\ UNCHANGED <<status, eofSeen, polls, trace, out>>

\* cap.next_packet() is Err(NoMorePackets), the end of a recorded capture
\* (a live capture never reports it): the same Err arm, warn and loop.
NextPacketEof ==
    /\ status = "running"
    /\ polls < MaxPolls
    /\ eofSeen' = TRUE
    /\ polls' = polls + 1
    /\ last' = [NoStep EXCEPT !.kind = "eof", !.warned = TRUE]
    /\ UNCHANGED <<status, trace, out>>

Next == NextPacketOk \/ NextPacketErr \/ NextPacketEof

Spec == Init /\ [][Next]_vars

\* -------------------------------------------------------------- claims
\* The frame of the last iteration, when that iteration handled a frame.
OnFrame == last.kind = "frame"
LastFrame == trace[Len(trace)]

\* A frame the filter should let through: IPv4, UDP, to the port.
ToPort(f) == f.net = "ipv4" /\ f.transport = "udp" /\ f.dport = PORT

EofWhile(p) == p.tried /\ ~p.ok /\ p.err = "UnexpectedEof"

\* C1: a buffer that ends while the Header or the ArchiveHeader is read
\* makes dump return a decode error, which the loop reports before it goes
\* on; the loop is never panicked.
C1_TruncatedEnvelopeIsDecodeError ==
    (OnFrame /\ (EofWhile(last.d.header) \/ EofWhile(last.d.archive)))
        => (last.d.outcome = "err" /\ last.warned /\ status = "running")

\* C2: a frame whose link/network framing does not slice is reported and
\* skipped; the loop keeps running.
C2_MalformedFramingIsSkipped ==
    (OnFrame /\ LastFrame.malformed)
        => (status = "running" /\ last.warned)

\* C3: a payload whose byte count after the tag is not a multiple of 16 is
\* a decode error: nothing of it is decrypted, nothing is written to the
\* sink, no Header is parsed, the process does not crash.  (Stated for a
\* sink that takes every write, so that the sink is not what fails.)
C3_TruncatedCiphertextIsDecodeError ==
    (OnFrame /\ ~LastFrame.malformed /\ ToPort(LastFrame)
       /\ Len(LastFrame.payload) >= TAG_LEN
       /\ (Len(LastFrame.payload) - TAG_LEN) % BLOCK # 0
       /\ \A i \in 1..Len(last.d.writes) : last.d.writes[i].ok)
        => /\ last.d.outcome = "err"
           /\ last.d.writes = <<>>
           /\ ~last.d.header.tried
           /\ \A i \in 1..Len(out) : out[i].idx # Len(trace)
           /\ status = "running"

\* C4: a failed write to the sink does not keep Header::parse from being
\* run on the same buffer.
C4_SinkErrorDoesNotBlockParsing ==
    (OnFrame /\ Len(last.d.writes) > 0 /\ ~last.d.writes[1].ok)
        => last.d.header.tried

\* A packet that was decrypted as a whole: through the filter, a tag and
\* whole blocks after it.
Decrypted(f) ==
    /\ ~f.malformed
    /\ ToPort(f)
    /\ Len(f.payload) >= TAG_LEN
    /\ (Len(f.payload) - TAG_LEN) % BLOCK = 0

WritesFor(k) == {i \in 1..Len(out) : out[i].idx = k}

\* C5: write_all is called on the sink exactly once for every decrypted
\* packet, with the whole decrypted buffer (the payload without the tag,
\* of the same length), in packet order, whatever the parse of the packet
\* does afterwards; a packet the filter rejects writes nothing.
C5_SinkGetsEachDecryptedBufferOnce ==
    /\ \A k \in 1..Len(trace) :
          LET f == trace[k]
          IN  /\ Decrypted(f) =>
                    /\ Cardinality(WritesFor(k)) = 1
                    /\ \A i \in WritesFor(k) :
                          /\ Len(out[i].buf) = Len(f.payload) - TAG_LEN
                          /\ EncryptBlocks(out[i].buf)
                                = SubSeq(f.payload, TAG_LEN + 1, Len(f.payload))
              /\ (~f.malformed /\ ~ToPort(f)) => WritesFor(k) = {}
    /\ \A i, j \in 1..Len(out) : i < j => out[i].idx < out[j].idx

\* Two decrypted packets, the second one's Recruit parse failing, both
\* written.
C5_Witness ==
    /\ Len(trace) = 2
    /\ Decrypted(trace[1])
    /\ Decrypted(trace[2])
    /\ Len(out) = 2
    /\ Len(out[2].buf) > 0
    /\ last.d.stage = "recruit"
    /\ last.d.outcome = "err"

\* C6: once a recorded capture has reported its end the loop stops: the
\* source is not fetched from again.
C6_LoopStopsAtEndOfFile == polls <= 1

\* C7: a well-formed frame that is not IPv4, not UDP or not to port 50200
\* is skipped with no effect: dump is not invoked, nothing of it is written
\* to the sink, nothing is reported, and the loop keeps running.
C7_FilterSkipHasNoEffect ==
    (OnFrame /\ ~LastFrame.malformed /\ ~ToPort(LastFrame))
        => /\ ~last.d.invoked
           /\ WritesFor(Len(trace)) = {}
           /\ ~last.warned
           /\ status = "running"

\* A UDP datagram to another port, skipped after a packet that was dumped.
C7_Witness ==
    /\ Len(trace) = 2
    /\ OnFrame
    /\ LastFrame.net = "ipv4"
    /\ LastFrame.transport = "udp"
    /\ LastFrame.dport # PORT
    /\ last.filter = "skip"
    /\ Len(out) = 1
    /\ status = "running"

\* The command identifier and the end of the ArchiveHeader as the bytes of
\* the decrypted buffer give them.
CommandBytes(buf) == U32LE(SubSeq(buf, 9, 12))
EnvelopeEnd(buf) == 12 + 4 + U32LE(SubSeq(buf, 13, 16)) + 10

\* C8: with Header and ArchiveHeader parsed, 11 and 12 both run the
\* Recruit decoder on the bytes after the ArchiveHeader, and only its
\* failure fails dump; every other value is reported as Unknown(value),
\* the cursor stays at the end of the ArchiveHeader and dump succeeds.
C8_CommandDispatch ==
    (OnFrame /\ last.d.header.ok /\ last.d.archive.ok)
        => LET d == last.d
               cmd == CommandBytes(d.buf)
           IN  /\ d.outcome \in {"ok", "err"}
               /\ cmd \in {11, 12} =>
                     /\ d.recruit.tried
                     /\ d.recruit.start = EnvelopeEnd(d.buf)
                     /\ (d.outcome = "err") = (~d.recruit.ok)
                     /\ d.recruit.ok =>
                           d.info = << [event |-> "Recruit", value |-> cmd] >>
               /\ cmd \notin {11, 12} =>
                     /\ ~d.recruit.tried
                     /\ d.info = << [event |-> "Unknown command", value |-> cmd] >>
                     /\ d.pos = EnvelopeEnd(d.buf)
                     /\ d.outcome = "ok"

\* A RecruitEnd packet decoded after a packet with an unknown command.
C8_Witness ==
    /\ Len(trace) = 2
    /\ OnFrame
    /\ last.d.archive.ok
    /\ CommandBytes(last.d.buf) = 12
    /\ last.d.recruit.ok
    /\ last.d.outcome = "ok"
    /\ Len(out) = 2
    /\ Len(out[1].buf) >= 12
    /\ CommandBytes(out[1].buf) = 2147483647

\* The offset of every read of the Recruit decoder from the start of the
\* record, for a name of n and a team of m bytes, when the always-1 value
\* takes `one` bytes: <<field, fixed part, counts n, counts m>>.
RecruitOffsets(one) ==
    << <<"pad15", 0, 0, 0>>,
       <<"flag", 15, 0, 0>>,
       <<"unknown0", 16, 0, 0>>,
       <<"host", 20, 0, 0>>,
       <<"aime_id", 24, 0, 0>>,
       <<"zero", 28, 0, 0>>,
       <<"name", 32, 0, 0>>,
       <<"chara", 36, 1, 0>>,
       <<"chara_level", 40, 1, 0>>,
       <<"skill", 44, 1, 0>>,
       <<"skill_level", 48, 1, 0>>,
       <<"trophy", 52, 1, 0>>,
       <<"trophy2", 56, 1, 0>>,
       <<"trophy3", 60, 1, 0>>,
       <<"rating", 64, 1, 0>>,
       <<"music_id", 68, 1, 0>>,
       <<"difficulty", 72, 1, 0>>,
       <<"one", 76, 1, 0>>,
       <<"team", 76 + one, 1, 0>>,
       <<"pad30", 80 + one, 1, 1>>,
       <<"avatar_wear", 110 + one, 1, 1>>,
       <<"avatar_head", 114 + one, 1, 1>>,
       <<"avatar_face", 118 + one, 1, 1>>,
       <<"avatar_skin", 122 + one, 1, 1>>,
       <<"avatar_item", 126 + one, 1, 1>>,
       <<"avatar_front", 130 + one, 1, 1>>,
       <<"avatar_back", 134 + one, 1, 1>>,
       <<"zeros16", 138 + one, 1, 1>>,
       <<"music_id2", 154 + one, 1, 1>>,
       <<"group", 158 + one, 1, 1>>,
       <<"event_mode_flag", 162 + one, 1, 1>>,
       <<"unknown1", 166 + one, 1, 1>>,
       <<"minus1", 170 + one, 1, 1>>,
       <<"pad5", 174 + one, 1, 1>>,
       <<"time", 179 + one, 1, 1>>,
       <<"players", 183 + one, 1, 1>>,
       <<"event_mode", 187 + one, 1, 1>>,
       <<"friend_only", 188 + one, 1, 1>> >>

\* Every read the Recruit decoder did began where the layout puts it, and
\* a complete record ends one byte after friend_only.
RecruitReadsAt(r, one) ==
    LET n == IF HasRead(r.reads, "name") THEN Len(Val(r.reads, "name")) ELSE 0
        m == IF HasRead(r.reads, "team") THEN Len(Val(r.reads, "team")) ELSE 0
        table == RecruitOffsets(one)
    IN  /\ Len(r.reads) <= Len(table)
        /\ \A i \in 1..Len(r.reads) :
              /\ r.reads[i].name = table[i][1]
              /\ r.reads[i].at - r.start
                    = table[i][2] + table[i][3] * n + table[i][4] * m
        /\ r.ok => /\ Len(r.reads) = Len(table)
                   /\ r.pos - r.start = 189 + one + n + m

\* C9 as stated: skips of 15, 30, 16 and 5 bytes and the always-1, the
\* always-zero and the -1 values 4 bytes each.
C9_OffsetsWithOneAsU32 ==
    (OnFrame /\ last.d.recruit.tried) => RecruitReadsAt(last.d.recruit, 4)

\* C9, amended: skips of 15, 30, 16 and 5 bytes, the always-zero and the
\* -1 values 4 bytes each, and the always-1 value 8 bytes (read_u64).
C9_OffsetsWithOneAsU64 ==
    (OnFrame /\ last.d.recruit.tried) => RecruitReadsAt(last.d.recruit, 8)

\* A complete record with a name and a team of one byte each, decoded to
\* the values the wire carried.
C9_Witness ==
    /\ OnFrame
    /\ last.d.recruit.ok
    /\ Val(last.d.recruit.reads, "name") = NameBytes(1)
    /\ Val(last.d.recruit.reads, "team") = TeamBytes(1)
    /\ Val(last.d.recruit.reads, "aime_id") = 42
    /\ Val(last.d.recruit.reads, "host") = <<192, 168, 139, 5>>
    /\ GroupFrom(Val(last.d.recruit.reads, "group")).tag = "B"
    /\ Val(last.d.recruit.reads, "time") = 1700000000
    /\ Val(last.d.recruit.reads, "players") = 3
    /\ Val(last.d.recruit.reads, "friend_only") = 0

\* C10: whatever the length of a payload sent to the port, dump succeeds
\* or returns an error that the loop handles: the process goes on.
C10_NoPayloadLengthEndsTheProcess ==
    (OnFrame /\ ~LastFrame.malformed /\ ToPort(LastFrame))
        => (last.d.outcome \in {"ok", "err"} /\ status = "running")

====
